---------------------------- MODULE Spec2Model ----------------------------
(***************************************************************************)
(* A model of thermal_camera.py: the start-up sequence that finds the      *)
(* HikMicro camera on the USB bus (resetting the port when no video node   *)
(* is bound) and the per-frame loop (Y-channel extraction, temporal        *)
(* averaging, normalisation with contrast boost, key handling).            *)
(*                                                                         *)
(* Representation of the program's values:                                 *)
(*  - path strings are sequences of ASCII codes, so that `in` (substring)  *)
(*    and sorted() (lexicographic order) are computed and not assumed;     *)
(*    the constant directory prefixes are shortened to "/u/" (for          *)
(*    /sys/bus/usb/devices/) and "/d/" (for /dev/);                        *)
(*  - None is the empty sequence (Python's `not x` is true of both);       *)
(*  - contrast_boost is held in tenths (10 is 1.0, the step 0.2 is 2);     *)
(*  - a float image is held exactly, as a grid of numerators over one      *)
(*    common denominator: thermal = sum / n.                               *)
(***************************************************************************)
EXTENDS Integers, Sequences, FiniteSets, TLC

VARIABLES
    pc,             \* where the program is
    sysfs,          \* line 66 / 80: result of the last bus scan
    device,         \* line 73 / 82: resolved /dev/videoN, or None
    attempt,        \* line 78: polling ticks run so far
    exitCode,       \* 0 while running, 1 after exit(1)
    resetCalls,     \* number of calls of usb_reset_thermal
    ioctls,         \* devices the reset ioctl was issued on, in order
    roundLog,       \* outcome of every search round: "none", "unbound", "bound"
    globUsb,        \* lines 15 / 40: the bus listing, when a lookup is run alone
    globVideo,      \* line 57: the video node listing, when a lookup is run alone
    resetSeen,      \* the last call of usb_reset_thermal: the bus it saw, its result
    scanEpoch,      \* resetCalls at the scan that gave sysfs
    nodeEpoch,      \* scanEpoch of the handle device was resolved from
    actual,         \* lines 103-104: <<actual_w, actual_h>>
    raw_bytes,      \* line 169: the last buffer read
    gray,           \* line 177: the last extracted Y plane
    frame_buffer,   \* line 112
    thermal,        \* line 183: [sum, n], the mean is sum / n
    thermal_8bit,   \* line 197
    cmap_idx,       \* line 126
    contrast_boost, \* line 133, in tenths
    key,            \* line 246: the last key polled
    cap,            \* line 94 / 263: "none", "open" or "released"
    pushed,         \* every frame appended to frame_buffer so far, in order
    outcome,        \* how the last loop iteration went: "readfail", "short", "frame"
    feed,           \* this run's camera: the buffers it may deliver, how many frames
    typed           \* a "q" is typed and waits in the window's event queue

startupVars == <<sysfs, device, attempt, exitCode, resetCalls, ioctls, roundLog,
                 globUsb, globVideo, resetSeen, scanEpoch, nodeEpoch, actual>>
sessionVars == <<raw_bytes, gray, frame_buffer, thermal, thermal_8bit, cmap_idx,
                 contrast_boost, key, cap, pushed, outcome, feed, typed>>
vars == <<pc, startupVars, sessionVars>>

None == <<>>

-----------------------------------------------------------------------------
(* Strings *)

\* Python's `a in b` for strings: a is a contiguous substring of b.
IsSubstring(a, b) ==
    \E i \in 0..(Len(b) - Len(a)) : \A j \in 1..Len(a) : b[i + j] = a[j]

\* Python's string comparison a < b: lexicographic by code point.
StrLess(a, b) ==
    \/ \E i \in 1..Len(a) :
          /\ i <= Len(b)
          /\ a[i] < b[i]
          /\ \A j \in 1..(i - 1) : a[j] = b[j]
    \/ /\ Len(a) < Len(b)
       /\ \A j \in 1..Len(a) : a[j] = b[j]

\* sorted(S) for a set of distinct strings.
RECURSIVE Sorted(_)
Sorted(S) ==
    IF S = {} THEN <<>>
    ELSE LET m == CHOOSE x \in S : \A y \in S \ {x} : StrLess(x, y)
         IN  <<m>> \o Sorted(S \ {m})

\* Index of the last "/" (code 47) of p, 0 when there is none.
LastSlash(p) ==
    LET S == {i \in 1..Len(p) : p[i] = 47}
    IN  IF S = {} THEN 0 ELSE CHOOSE i \in S : \A j \in S : j <= i

\* os.path.basename and os.path.dirname.
Basename(p) == SubSeq(p, LastSlash(p) + 1, Len(p))
Dirname(p) == SubSeq(p, 1, LastSlash(p) - 1)


-----------------------------------------------------------------------------
(* The operating system as the start-up code sees it *)

THERMAL_USB_VID == "2bdf"
THERMAL_USB_PID == "0102"

\* What open(...).read() gives for a descriptor file that cannot be read
\* (the code's `except` branch is taken).
Unreadable == "unreadable"

UsbPrefix == <<47, 117, 47>>         \* "/u/", for /sys/bus/usb/devices/
IdVendorFile == <<47, 105>>          \* "/i",  for /idVendor
DevPrefix == <<47, 100, 47>>         \* "/d/", for /dev/

\* A USB device of the bus: its directory name, what its idVendor and
\* idProduct files read, and how a reset of it goes: "ok", "nodesc" (busnum
\* or devnum unreadable), "noopen" (os.open raises), "ioctlfail".
UsbDev(name, vid, pid, reset) ==
    [name |-> name, vid |-> vid, pid |-> pid, reset |-> reset]

Name_1_1 == <<49, 45, 49>>           \* "1-1"
Name_1_10 == <<49, 45, 49, 48>>      \* "1-10"
Name_1_2 == <<49, 45, 50>>           \* "1-2"
Name_usb1 == <<117, 49>>             \* "u1", a root hub

Hub == UsbDev(Name_usb1, "1d6b", "0002", "ok")
Cam == UsbDev(Name_1_1, THERMAL_USB_VID, THERMAL_USB_PID, "ok")
CamNoOpen == UsbDev(Name_1_1, THERMAL_USB_VID, THERMAL_USB_PID, "noopen")
CamIoctlFail == UsbDev(Name_1_1, THERMAL_USB_VID, THERMAL_USB_PID, "ioctlfail")
CamGone == UsbDev(Name_1_1, Unreadable, Unreadable, "nodesc")
CamHalfGone == UsbDev(Name_1_1, THERMAL_USB_VID, Unreadable, "nodesc")
OtherProduct == UsbDev(Name_1_10, THERMAL_USB_VID, "0001", "ok")
Cam2 == UsbDev(Name_1_2, THERMAL_USB_VID, THERMAL_USB_PID, "ok")
Cam2IoctlFail == UsbDev(Name_1_2, THERMAL_USB_VID, THERMAL_USB_PID, "ioctlfail")
Gone2 == UsbDev(Name_1_2, Unreadable, Unreadable, "nodesc")
HalfGone2 == UsbDev(Name_1_2, THERMAL_USB_VID, Unreadable, "nodesc")

\* The bus in glob order (glob.glob does not sort), as one scan may see it.
BusStates ==
    { <<>>, <<Hub>>, <<Hub, Cam>>, <<Hub, OtherProduct>>, <<CamGone, Hub>>,
      <<Hub, CamHalfGone>>, <<OtherProduct, CamNoOpen>>, <<CamIoctlFail>>,
      <<CamIoctlFail, Cam2>>, <<CamNoOpen, Cam2IoctlFail>>,
      <<Gone2, Cam>>, <<Cam, HalfGone2>>, <<Hub, HalfGone2, Cam>> }

\* /sys/class/video4linux: each node's path and its os.path.realpath.
VideoNode(path, real) == [path |-> path, real |-> real]

Video0 == <<47, 118, 47, 118, 48>>   \* "/v/v0", for .../video4linux/video0
Video1 == <<47, 118, 47, 118, 49>>   \* "/v/v1"

Real_1_1_v0 == <<47, 49, 45, 49, 47, 118, 48>>   \* "/1-1/v0"
Real_1_1_v1 == <<47, 49, 45, 49, 47, 118, 49>>   \* "/1-1/v1"
Real_pci_v0 == <<47, 112, 47, 118, 48>>          \* "/p/v0", not a USB device
Real_1_10_v0 == <<47, 49, 45, 49, 48, 47, 118, 48>>   \* "/1-10/v0"
Real_1_2_v0 == <<47, 49, 45, 50, 47, 118, 48>>        \* "/1-2/v0"

NodeStates ==
    { {},
      {VideoNode(Video0, Real_pci_v0)},
      {VideoNode(Video0, Real_1_1_v0), VideoNode(Video1, Real_1_1_v1)},
      {VideoNode(Video0, Real_pci_v0), VideoNode(Video1, Real_1_1_v1)},
      {VideoNode(Video0, Real_1_10_v0)},
      {VideoNode(Video0, Real_1_2_v0), VideoNode(Video1, Real_1_1_v1)} }

-----------------------------------------------------------------------------
(* Lines 13-61: the three functions of the start-up code *)

\* ResetFrom with the try around the whole loop: the first failure ends
\* the function.
RECURSIVE ResetFrom_StopAtFailure(_, _, _)
ResetFrom_StopAtFailure(bus, i, acc) ==
    IF i > Len(bus) THEN [acc EXCEPT !.ret = FALSE]
    ELSE LET d == bus[i]
             failed == [acc EXCEPT !.failed = @ + 1, !.ret = FALSE]
             issued == [acc EXCEPT !.ioctls = Append(@, d.name)]
         IN  IF d.vid = Unreadable THEN failed
             ELSE IF d.vid # THERMAL_USB_VID
                  THEN ResetFrom_StopAtFailure(bus, i + 1, acc)
             ELSE IF d.pid = Unreadable THEN failed
             ELSE IF d.pid # THERMAL_USB_PID
                  THEN ResetFrom_StopAtFailure(bus, i + 1, acc)
             ELSE IF d.reset \in {"nodesc", "noopen"} THEN failed
             ELSE IF d.reset = "ioctlfail"
                  THEN [issued EXCEPT !.failed = @ + 1, !.ret = FALSE]
             ELSE [issued EXCEPT !.ret = TRUE]

\* usb_reset_thermal, lines 13-35, from the i-th entry of the glob on. acc
\* collects the devices the ioctl was issued on and the failures printed.
RECURSIVE ResetFrom(_, _, _)
ResetFrom(bus, i, acc) ==
    IF i > Len(bus) THEN [acc EXCEPT !.ret = FALSE]
    ELSE LET d == bus[i]
             failed == [acc EXCEPT !.failed = @ + 1]
             issued == [acc EXCEPT !.ioctls = Append(@, d.name)]
         IN  IF d.vid = Unreadable THEN ResetFrom(bus, i + 1, failed)
             ELSE IF d.vid # THERMAL_USB_VID THEN ResetFrom(bus, i + 1, acc)
             ELSE IF d.pid = Unreadable THEN ResetFrom(bus, i + 1, failed)
             ELSE IF d.pid # THERMAL_USB_PID THEN ResetFrom(bus, i + 1, acc)
             ELSE IF d.reset \in {"nodesc", "noopen"}
                  THEN ResetFrom(bus, i + 1, failed)
             ELSE IF d.reset = "ioctlfail"
                  THEN ResetFrom(bus, i + 1, [issued EXCEPT !.failed = @ + 1])
             ELSE [issued EXCEPT !.ret = TRUE]

usb_reset_thermal(bus) ==
    ResetFrom(bus, 1, [ret |-> FALSE, ioctls |-> <<>>, failed |-> 0])

\* FindFrom with the try around the whole loop: a descriptor that cannot
\* be read ends the scan with nothing found.
RECURSIVE FindFrom_StopAtError(_, _)
FindFrom_StopAtError(bus, i) ==
    IF i > Len(bus) THEN None
    ELSE LET d == bus[i]
             devpath == UsbPrefix \o d.name \o IdVendorFile
         IN  IF d.vid = Unreadable THEN None
             ELSE IF d.vid # THERMAL_USB_VID THEN FindFrom_StopAtError(bus, i + 1)
             ELSE IF d.pid = Unreadable THEN None
             ELSE IF d.pid = THERMAL_USB_PID THEN Dirname(devpath)
             ELSE FindFrom_StopAtError(bus, i + 1)

\* find_thermal_usb_sysfs, lines 38-51, from the i-th entry of the glob on.
RECURSIVE FindFrom(_, _)
FindFrom(bus, i) ==
    IF i > Len(bus) THEN None
    ELSE LET d == bus[i]
             devpath == UsbPrefix \o d.name \o IdVendorFile
         IN  IF d.vid = Unreadable THEN FindFrom(bus, i + 1)
             ELSE IF d.vid # THERMAL_USB_VID THEN FindFrom(bus, i + 1)
             ELSE IF d.pid = Unreadable THEN FindFrom(bus, i + 1)
             ELSE IF d.pid = THERMAL_USB_PID THEN Dirname(devpath)
             ELSE FindFrom(bus, i + 1)

find_thermal_usb_sysfs(bus) == FindFrom(bus, 1)

\* find_thermal_video_device, lines 54-61: the first node, in sorted path
\* order, whose realpath contains the basename of sysfs_dir.
find_thermal_video_device(sysfs_dir, nodes) ==
    LET usb_basename == Basename(sysfs_dir)
        paths == Sorted({v.path : v \in nodes})
        RealOf(p) == (CHOOSE v \in nodes : v.path = p).real
        hits == {i \in 1..Len(paths) : IsSubstring(usb_basename, RealOf(paths[i]))}
    IN  IF hits = {} THEN None
        ELSE DevPrefix \o Basename(paths[CHOOSE i \in hits : \A j \in hits : i <= j])


-----------------------------------------------------------------------------
(* Lines 64-105: auto-detect the camera, reset the USB port if needed, *)
(* open the capture                                                    *)

\* range(5), line 78.
RETRIES == 5

RoundOutcome(s, d) ==
    IF s = None THEN "none" ELSE IF d = None THEN "unbound" ELSE "bound"

\* InitialScan without the exit(1) of line 70: the code falls through to
\* the reset.
InitialScan_NoExit ==
    /\ pc = "scan"
    /\ \E b \in BusStates :
          LET s == find_thermal_usb_sysfs(b)
          IN  /\ sysfs' = s
              /\ scanEpoch' = resetCalls
              /\ IF s = None
                 THEN /\ pc' = "reset"
                      /\ roundLog' = Append(roundLog, RoundOutcome(s, None))
                 ELSE /\ pc' = "resolve"
                      /\ UNCHANGED roundLog
    /\ UNCHANGED <<device, attempt, exitCode, resetCalls, ioctls, resetSeen,
                   nodeEpoch, actual, globUsb, globVideo, sessionVars>>

\* Lines 66-70: the first scan; exit(1) when no device matches.
InitialScan ==
    /\ pc = "scan"
    /\ \E b \in BusStates :
          LET s == find_thermal_usb_sysfs(b)
          IN  /\ sysfs' = s
              /\ scanEpoch' = resetCalls
              /\ IF s = None
                 THEN /\ pc' = "no_device"
                      /\ exitCode' = 1
                      /\ roundLog' = Append(roundLog, RoundOutcome(s, None))
                 ELSE /\ pc' = "resolve"
                      /\ UNCHANGED <<exitCode, roundLog>>
    /\ UNCHANGED <<device, attempt, resetCalls, ioctls, resetSeen, nodeEpoch,
                   actual, globUsb, globVideo, sessionVars>>

\* Lines 72-75 and 87-91: resolve the video node of the device found.
InitialResolve ==
    /\ pc = "resolve"
    /\ \E ns \in NodeStates :
          LET d == find_thermal_video_device(sysfs, ns)
          IN  /\ device' = d
              /\ nodeEpoch' = scanEpoch
              /\ pc' = IF d = None THEN "reset" ELSE "found"
              /\ roundLog' = Append(roundLog, RoundOutcome(sysfs, d))
    /\ UNCHANGED <<sysfs, attempt, exitCode, resetCalls, ioctls, resetSeen,
                   scanEpoch, actual, globUsb, globVideo, sessionVars>>

\* Lines 76-77: reset the port; the function's result is not looked at.
ResetUsb ==
    /\ pc = "reset"
    /\ \E b \in BusStates :
          LET r == usb_reset_thermal(b)
          IN  /\ resetCalls' = resetCalls + 1
              /\ ioctls' = ioctls \o r.ioctls
              /\ resetSeen' = [bus |-> b, result |-> r]
    /\ pc' = "poll"
    /\ UNCHANGED <<sysfs, device, attempt, exitCode, roundLog, scanEpoch,
                   nodeEpoch, actual, globUsb, globVideo, sessionVars>>

\* Tick without the break of line 84: the loop runs on after the node is
\* resolved.
Tick_NoBreak ==
    /\ pc = "poll"
    /\ attempt < RETRIES
    /\ \E b \in BusStates, ns \in NodeStates :
          LET s == find_thermal_usb_sysfs(b)
              d == IF s # None THEN find_thermal_video_device(s, ns) ELSE device
              last == attempt + 1 = RETRIES
          IN  /\ sysfs' = s
              /\ device' = d
              /\ scanEpoch' = resetCalls
              /\ nodeEpoch' = IF s # None THEN scanEpoch' ELSE nodeEpoch
              /\ attempt' = attempt + 1
              /\ roundLog' = Append(roundLog, RoundOutcome(s, d))
              /\ pc' = IF ~last THEN "poll"
                       ELSE IF d # None THEN "found" ELSE "give_up"
              /\ exitCode' = IF last /\ d = None THEN 1 ELSE exitCode
    /\ UNCHANGED <<resetCalls, ioctls, resetSeen, actual, globUsb, globVideo,
                   sessionVars>>

\* Tick with range(6) for range(5).
Tick_OneMore ==
    /\ pc = "poll"
    /\ attempt < RETRIES + 1
    /\ \E b \in BusStates, ns \in NodeStates :
          LET s == find_thermal_usb_sysfs(b)
              d == IF s # None THEN find_thermal_video_device(s, ns) ELSE device
              giveUp == d = None /\ attempt + 1 = RETRIES + 1
          IN  /\ sysfs' = s
              /\ device' = d
              /\ scanEpoch' = resetCalls
              /\ nodeEpoch' = IF s # None THEN scanEpoch' ELSE nodeEpoch
              /\ attempt' = attempt + 1
              /\ roundLog' = Append(roundLog, RoundOutcome(s, d))
              /\ pc' = IF d # None THEN "found"
                       ELSE IF giveUp THEN "give_up" ELSE "poll"
              /\ exitCode' = IF giveUp THEN 1 ELSE exitCode
    /\ UNCHANGED <<resetCalls, ioctls, resetSeen, actual, globUsb, globVideo,
                   sessionVars>>

\* Tick without the scan of line 80: every pass resolves from the handle
\* the program already holds.
Tick_StaleHandle ==
    /\ pc = "poll"
    /\ attempt < RETRIES
    /\ \E b \in BusStates, ns \in NodeStates :
          LET s == sysfs
              d == IF s # None THEN find_thermal_video_device(s, ns) ELSE device
              giveUp == d = None /\ attempt + 1 = RETRIES
          IN  /\ sysfs' = s
              /\ device' = d
              /\ scanEpoch' = scanEpoch
              /\ nodeEpoch' = IF s # None THEN scanEpoch' ELSE nodeEpoch
              /\ attempt' = attempt + 1
              /\ roundLog' = Append(roundLog, RoundOutcome(s, d))
              /\ pc' = IF d # None THEN "found"
                       ELSE IF giveUp THEN "give_up" ELSE "poll"
              /\ exitCode' = IF giveUp THEN 1 ELSE exitCode
    /\ UNCHANGED <<resetCalls, ioctls, resetSeen, actual, globUsb, globVideo,
                   sessionVars>>

\* Tick that treats an empty scan as line 68 does: exit(1), no device.
Tick_ExitOnNone ==
    /\ pc = "poll"
    /\ attempt < RETRIES
    /\ \E b \in BusStates, ns \in NodeStates :
          LET s == find_thermal_usb_sysfs(b)
              d == IF s # None THEN find_thermal_video_device(s, ns) ELSE device
              giveUp == d = None /\ attempt + 1 = RETRIES
          IN  /\ sysfs' = s
              /\ device' = d
              /\ scanEpoch' = resetCalls
              /\ nodeEpoch' = IF s # None THEN scanEpoch' ELSE nodeEpoch
              /\ attempt' = attempt + 1
              /\ roundLog' = Append(roundLog, RoundOutcome(s, d))
              /\ pc' = IF s = None THEN "no_device"
                       ELSE IF d # None THEN "found"
                       ELSE IF giveUp THEN "give_up" ELSE "poll"
              /\ exitCode' = IF s = None \/ giveUp THEN 1 ELSE exitCode
    /\ UNCHANGED <<resetCalls, ioctls, resetSeen, actual, globUsb, globVideo,
                   sessionVars>>

\* Lines 78-89: one pass of the polling loop (attempt counts the passes
\* run), and, when the loop ends without a device, exit(1).
Tick ==
    /\ pc = "poll"
    /\ attempt < RETRIES
    /\ \E b \in BusStates, ns \in NodeStates :
          LET s == find_thermal_usb_sysfs(b)
              d == IF s # None THEN find_thermal_video_device(s, ns) ELSE device
              giveUp == d = None /\ attempt + 1 = RETRIES
          IN  /\ sysfs' = s
              /\ device' = d
              /\ scanEpoch' = resetCalls
              /\ nodeEpoch' = IF s # None THEN scanEpoch' ELSE nodeEpoch
              /\ attempt' = attempt + 1
              /\ roundLog' = Append(roundLog, RoundOutcome(s, d))
              /\ pc' = IF d # None THEN "found"
                       ELSE IF giveUp THEN "give_up" ELSE "poll"
              /\ exitCode' = IF giveUp THEN 1 ELSE exitCode
    /\ UNCHANGED <<resetCalls, ioctls, resetSeen, actual, globUsb, globVideo,
                   sessionVars>>

\* set(CAP_PROP_FRAME_WIDTH, 256) and set(CAP_PROP_FRAME_HEIGHT, 192),
\* lines 96-97: the mode the program asks for.
Requested == <<256, 192>>

\* Modes a UVC device may answer with: the one asked for, or its own.
Resolutions == {Requested, <<256, 384>>, <<640, 480>>}

\* Lines 93-105: open the resolved node; exit(1) when it does not open;
\* when it does, read the mode the device reports, print it and go on to
\* the loop.
OpenCamera ==
    /\ pc = "found"
    /\ \E opens \in BOOLEAN, res \in Resolutions :
          IF opens
          THEN /\ cap' = "open"
               /\ actual' = res
               /\ pc' = "read"
               /\ UNCHANGED exitCode
          ELSE /\ pc' = "open_failed"
               /\ exitCode' = 1
               /\ UNCHANGED <<cap, actual>>
    /\ UNCHANGED <<sysfs, device, attempt, resetCalls, ioctls, roundLog, globUsb,
                   globVideo, resetSeen, scanEpoch, nodeEpoch, raw_bytes, gray,
                   frame_buffer, thermal, thermal_8bit, cmap_idx, contrast_boost,
                   key, pushed, outcome, feed, typed>>


-----------------------------------------------------------------------------
(* Lines 107-133 and 164-197: the frame loop's data *)

\* h, w = 192, 256 (line 170), scaled down so that a buffer can be
\* enumerated; the layout (two bytes per pixel, row after row) is kept.
h == 2
w == 2

\* Frames processed in one run of the model: with every kind of buffer,
\* and with flat frames only (21 key polls take the contrast from 1.0 to
\* 5.0 and once into the bound).
MaxFrames == 4
LongFrames == 21
BriefFrames == 3

SMOOTH_FRAMES == 3

\* The six entries of COLORMAPS, lines 118-125, by name.
COLORMAPS == <<"Inferno", "Jet", "Hot", "Magma", "Turbo", "Plasma">>

\* Buffers cap.read() may hand over. The byte at offset k is raw[k + 1].
FlatBuf(len) == [i \in 1..len |-> 100]
RampBuf(len) == [i \in 1..len |-> (20 * (i - 1)) % 256]
SpotBuf(len) == [i \in 1..len |-> IF i = 1 THEN 101 ELSE 100]

RawInputs ==
    { FlatBuf(h * w * 2), RampBuf(h * w * 2), SpotBuf(h * w * 2),
      RampBuf(h * w * 2 + 1), RampBuf(h * w * 2 - 1), FlatBuf(1) }

VariedFeed == [inputs |-> RawInputs, frames |-> MaxFrames]
SteadyFeed == [inputs |-> {FlatBuf(h * w * 2), FlatBuf(h * w * 2 - 1)},
               frames |-> LongFrames]
BriefFeed == [inputs |-> {FlatBuf(h * w * 2), FlatBuf(h * w * 2 - 1)},
              frames |-> BriefFrames]

Min2(a, b) == IF a < b THEN a ELSE b
Max2(a, b) == IF a > b THEN a ELSE b

\* TooShort with <= for <.
TooShort_OffByOne(raw) == Len(raw) <= h * w * 2

\* Line 172: the buffer is too short for one frame.
TooShort(raw) == Len(raw) < h * w * 2

\* Lines 176-177: reshape to h rows of 2w bytes, then take every second
\* byte of each row, from the first.
Extract(raw) ==
    LET frame_data == [y \in 1..h |-> [j \in 1..(w * 2) |-> raw[(y - 1) * (w * 2) + j]]]
    IN  [y \in 1..h |-> [x \in 1..w |-> frame_data[y][2 * (x - 1) + 1]]]

\* Push with pop() for pop(0): the newest frame is dropped.
Push_PopLast(buf, g) ==
    LET b == Append(buf, g)
    IN  IF Len(b) > SMOOTH_FRAMES THEN SubSeq(b, 1, Len(b) - 1) ELSE b

\* Lines 180-182: append, and drop the oldest frame beyond SMOOTH_FRAMES.
Push(buf, g) ==
    LET b == Append(buf, g)
    IN  IF Len(b) > SMOOTH_FRAMES THEN Tail(b) ELSE b

RECURSIVE SumAt(_, _, _, _)
SumAt(buf, i, y, x) ==
    IF i > Len(buf) THEN 0 ELSE buf[i][y][x] + SumAt(buf, i + 1, y, x)

\* Mean that divides by SMOOTH_FRAMES whatever the window holds.
Mean_FixedCount(buf) ==
    [sum |-> [y \in 1..h |-> [x \in 1..w |-> SumAt(buf, 1, y, x)]],
     n   |-> SMOOTH_FRAMES]

\* Line 183: np.mean(frame_buffer, axis=0), as sum over count.
Mean(buf) ==
    [sum |-> [y \in 1..h |-> [x \in 1..w |-> SumAt(buf, 1, y, x)]],
     n   |-> Len(buf)]

PixelSums(th) == {th.sum[y][x] : y \in 1..h, x \in 1..w}
SetMin(S) == CHOOSE a \in S : \A b \in S : a <= b
SetMax(S) == CHOOSE a \in S : \A b \in S : a >= b

\* Line 191: t_range = max(t_max - t_min, 1). The three are numerators
\* over n, so the 1 is n.
TRange(t_min, t_max, n) == Max2(t_max - t_min, n)

\* Lines 192-194, as numerators over 2 * n * c (c is contrast_boost in
\* tenths): t_mid -/+ (t_range / 2) / contrast_boost.
BMin(t_min, t_max, t_range, c) == (t_min + t_max) * c - 10 * t_range
BMax(t_min, t_max, t_range, c) == (t_min + t_max) * c + 10 * t_range

\* ToUint8 that rounds to the nearest value, halves up.
ToUint8_Round(num, den) == (2 * 255 * num + den) \div (2 * den)

\* Line 197: (x * 255).astype(np.uint8) for x = num / den in [0, 1]: the
\* fraction is cut off.
ToUint8(num, den) == (255 * num) \div den

\* ClipTo8 without np.clip.
ClipTo8_NoClip(num, den) == (255 * num) \div den

\* Line 196 and 197 for one pixel: np.clip(num / den, 0, 1), then to 8 bits.
ClipTo8(num, den) ==
    IF num <= 0 THEN 0
    ELSE IF num >= den THEN 255
    ELSE ToUint8(num, den)

\* Lines 189-197. A pixel of value s / n is 2 * c * s over 2 * n * c.
Normalize(th, c) ==
    LET t_min == SetMin(PixelSums(th))
        t_max == SetMax(PixelSums(th))
        t_range == TRange(t_min, t_max, th.n)
        b_min == BMin(t_min, t_max, t_range, c)
        b_max == BMax(t_min, t_max, t_range, c)
    IN  [y \in 1..h |-> [x \in 1..w |->
            ClipTo8(2 * c * th.sum[y][x] - b_min, b_max - b_min)]]

\* NextPalette that wraps one entry early.
NextPalette_WrapEarly(i) == (i + 1) % (Len(COLORMAPS) - 1)

\* ContrastDown with a lower bound of 0.2.
ContrastDown_LowBound(c) == Max2(c - 2, 2)

\* Lines 254, 257 and 260.
NextPalette(i) == (i + 1) % Len(COLORMAPS)
ContrastUp(c) == Min2(c + 2, 50)
ContrastDown(c) == Max2(c - 2, 4)

-----------------------------------------------------------------------------
(* Lines 164-264: the frame loop *)

\* ReadFail without the continue of line 167: the iteration runs on to
\* waitKey.
ReadFail_Polls ==
    /\ pc = "read"
    /\ outcome' = "readfail"
    /\ pc' = "key"
    /\ UNCHANGED <<startupVars, raw_bytes, gray, frame_buffer, thermal,
                   thermal_8bit, cmap_idx, contrast_boost, key, cap, pushed, feed,
                   typed>>

\* ReadFail with break for the continue of line 167.
ReadFail_Break ==
    /\ pc = "read"
    /\ outcome' = "readfail"
    /\ pc' = "break"
    /\ UNCHANGED <<startupVars, raw_bytes, gray, frame_buffer, thermal,
                   thermal_8bit, cmap_idx, contrast_boost, key, cap, pushed, feed,
                   typed>>

\* Lines 165-167: cap.read() fails.
ReadFail ==
    /\ pc = "read"
    /\ outcome' = "readfail"
    /\ UNCHANGED <<pc, startupVars, raw_bytes, gray, frame_buffer, thermal,
                   thermal_8bit, cmap_idx, contrast_boost, key, cap, pushed, feed, typed>>

\* Lines 165-173: a buffer is read and is too short.
ShortBuffer ==
    /\ pc = "read"
    /\ \E raw \in feed.inputs :
          /\ TooShort(raw)
          /\ raw_bytes' = raw
    /\ outcome' = "short"
    /\ UNCHANGED <<pc, startupVars, gray, frame_buffer, thermal, thermal_8bit,
                   cmap_idx, contrast_boost, key, cap, pushed, feed, typed>>

\* Lines 165-244: a frame is read, averaged, normalised and shown.
ProcessFrame ==
    /\ pc = "read"
    /\ Len(pushed) < feed.frames
    /\ \E raw \in feed.inputs :
          /\ ~TooShort(raw)
          /\ raw_bytes' = raw
          /\ gray' = Extract(raw)
    /\ frame_buffer' = Push(frame_buffer, gray')
    /\ thermal' = Mean(frame_buffer')
    /\ thermal_8bit' = Normalize(thermal', contrast_boost)
    /\ pushed' = Append(pushed, gray')
    /\ outcome' = "frame"
    /\ pc' = "key"
    /\ UNCHANGED <<startupVars, cmap_idx, contrast_boost, key, cap, feed, typed>>

\* The user types "q" while the program is in the loop: the key event
\* waits in the window's queue for the next waitKey (line 246).
TypeQuit ==
    /\ \/ pc = "key"
       \/ pc = "read" /\ Len(pushed) < feed.frames
    /\ ~typed
    /\ typed' = TRUE
    /\ UNCHANGED <<pc, startupVars, raw_bytes, gray, frame_buffer, thermal,
                   thermal_8bit, cmap_idx, contrast_boost, key, cap, pushed,
                   outcome, feed>>

\* KeyQuit with exit() for the break of line 248: lines 263-264 are not run.
KeyQuit_Exit ==
    /\ pc = "key"
    /\ key' = "q"
    /\ typed' = FALSE
    /\ pc' = "end"
    /\ UNCHANGED <<startupVars, raw_bytes, gray, frame_buffer, thermal, thermal_8bit,
                   cmap_idx, contrast_boost, cap, pushed, outcome, feed>>

\* Lines 246-248: waitKey hands over a "q", waiting or typed just now.
KeyQuit ==
    /\ pc = "key"
    /\ key' = "q"
    /\ typed' = FALSE
    /\ pc' = "break"
    /\ UNCHANGED <<startupVars, raw_bytes, gray, frame_buffer, thermal, thermal_8bit,
                   cmap_idx, contrast_boost, cap, pushed, outcome, feed>>

\* Lines 249-252.
KeySnapshot ==
    /\ pc = "key"
    /\ ~typed
    /\ key' = "s"
    /\ pc' = "read"
    /\ UNCHANGED <<startupVars, raw_bytes, gray, frame_buffer, thermal, thermal_8bit,
                   cmap_idx, contrast_boost, cap, pushed, outcome, feed, typed>>

\* KeyColormap that also sets the contrast back to 1.0.
KeyColormap_ResetContrast ==
    /\ pc = "key"
    /\ ~typed
    /\ key' = "c"
    /\ cmap_idx' = NextPalette(cmap_idx)
    /\ contrast_boost' = 10
    /\ pc' = "read"
    /\ UNCHANGED <<startupVars, raw_bytes, gray, frame_buffer, thermal, thermal_8bit,
                   cap, pushed, outcome, feed, typed>>

\* Lines 253-255.
KeyColormap ==
    /\ pc = "key"
    /\ ~typed
    /\ key' = "c"
    /\ cmap_idx' = NextPalette(cmap_idx)
    /\ pc' = "read"
    /\ UNCHANGED <<startupVars, raw_bytes, gray, frame_buffer, thermal, thermal_8bit,
                   contrast_boost, cap, pushed, outcome, feed, typed>>

\* Lines 256-258.
KeyContrastUp ==
    /\ pc = "key"
    /\ ~typed
    /\ key' \in {"+", "="}
    /\ contrast_boost' = ContrastUp(contrast_boost)
    /\ pc' = "read"
    /\ UNCHANGED <<startupVars, raw_bytes, gray, frame_buffer, thermal, thermal_8bit,
                   cmap_idx, cap, pushed, outcome, feed, typed>>

\* Lines 259-261.
KeyContrastDown ==
    /\ pc = "key"
    /\ ~typed
    /\ key' = "-"
    /\ contrast_boost' = ContrastDown(contrast_boost)
    /\ pc' = "read"
    /\ UNCHANGED <<startupVars, raw_bytes, gray, frame_buffer, thermal, thermal_8bit,
                   cmap_idx, cap, pushed, outcome, feed, typed>>

\* Line 246 with any other key code, or none (waitKey gives -1): no "q"
\* is waiting.
KeyOther ==
    /\ pc = "key"
    /\ ~typed
    /\ key' = "other"
    /\ pc' = "read"
    /\ UNCHANGED <<startupVars, raw_bytes, gray, frame_buffer, thermal, thermal_8bit,
                   cmap_idx, contrast_boost, cap, pushed, outcome, feed, typed>>

\* Lines 263-264.
Release ==
    /\ pc = "break"
    /\ cap' = "released"
    /\ pc' = "end"
    /\ UNCHANGED <<startupVars, raw_bytes, gray, frame_buffer, thermal, thermal_8bit,
                   cmap_idx, contrast_boost, key, pushed, outcome, feed, typed>>

\* Lines 186-197 alone: the averaged frame is normalised.
NormalizeFrame ==
    /\ pc = "normalize"
    /\ thermal_8bit' = Normalize(thermal, contrast_boost)
    /\ pc' = "normalized"
    /\ UNCHANGED <<startupVars, raw_bytes, gray, frame_buffer, thermal, cmap_idx,
                   contrast_boost, key, cap, pushed, outcome, feed, typed>>

-----------------------------------------------------------------------------
(* Specifications *)

\* Lines 112, 126, 133: the loop's data before the first frame.
SessionStart ==
    /\ raw_bytes = <<>>
    /\ gray = <<>>
    /\ frame_buffer = <<>>
    /\ thermal = [sum |-> <<>>, n |-> 0]
    /\ thermal_8bit = <<>>
    /\ cmap_idx = 0
    /\ contrast_boost = 10
    /\ key = "none"
    /\ pushed = <<>>
    /\ outcome = "none"
    /\ typed = FALSE

\* No call of usb_reset_thermal yet.
NoReset == [bus |-> <<>>, result |-> [ret |-> FALSE, ioctls |-> <<>>, failed |-> 0]]

\* The program at line 64.
StartupInit ==
    /\ pc = "scan"
    /\ sysfs = None
    /\ device = None
    /\ attempt = 0
    /\ exitCode = 0
    /\ resetCalls = 0
    /\ ioctls = <<>>
    /\ roundLog = <<>>
    /\ globUsb = <<>>
    /\ globVideo = {}
    /\ resetSeen = NoReset
    /\ scanEpoch = 0
    /\ nodeEpoch = 0
    /\ actual = <<0, 0>>
    /\ cap = "none"
    /\ feed = VariedFeed
    /\ SessionStart

StartupNext == InitialScan \/ InitialResolve \/ ResetUsb \/ Tick

StartupSpec == StartupInit /\ [][StartupNext]_vars

\* The program runs on: it is one sequential thread and every sleep ends.
FairStartupSpec == StartupSpec /\ WF_vars(StartupNext)

\* Lines 64-105: the start-up up to the loop's first line.
BootNext == StartupNext \/ OpenCamera

BootSpec == StartupInit /\ [][BootNext]_vars

\* The program at line 164, the camera found at once and opened.
AtLoop ==
    /\ pc = "read"
    /\ sysfs = Dirname(UsbPrefix \o Name_1_1 \o IdVendorFile)
    /\ device = DevPrefix \o Basename(Video0)
    /\ attempt = 0
    /\ exitCode = 0
    /\ resetCalls = 0
    /\ ioctls = <<>>
    /\ roundLog = <<"bound">>
    /\ globUsb = <<>>
    /\ globVideo = {}
    /\ resetSeen = NoReset
    /\ scanEpoch = 0
    /\ nodeEpoch = 0
    /\ actual = Requested
    /\ cap = "open"
    /\ SessionStart

SessionInit == AtLoop /\ feed = VariedFeed
LongSessionInit == AtLoop /\ feed = SteadyFeed

SessionNext ==
    \/ ReadFail \/ ShortBuffer \/ ProcessFrame
    \/ KeyQuit \/ KeySnapshot \/ KeyColormap
    \/ KeyContrastUp \/ KeyContrastDown \/ KeyOther
    \/ Release

SessionSpec == SessionInit /\ [][SessionNext]_vars

LongSessionSpec == LongSessionInit /\ [][SessionNext]_vars

\* The loop with a user who may type "q" at any moment, also while reads
\* fail. The camera does deliver: a read that can succeed does in the end
\* (the fairness the liveness of quit is stated under); waitKey returns and
\* the lines after the loop run.
BriefInit == AtLoop /\ feed = BriefFeed

QuitNext == SessionNext \/ TypeQuit

QuitSpec == BriefInit /\ [][QuitNext]_vars

FairQuitSpec ==
    QuitSpec /\ WF_vars(ProcessFrame) /\ WF_vars(KeyQuit) /\ WF_vars(Release)

\* The normaliser as a function: the program at line 186 with any window
\* of one to SMOOTH_FRAMES extracted frames and any contrast the keys can
\* set (the even tenths from 0.4 to 5.0).
Frames == {Extract(raw) : raw \in {r \in RawInputs : ~TooShort(r)}}
Windows == UNION {[1..n -> Frames] : n \in 1..SMOOTH_FRAMES}
ContrastValues == {c \in 4..50 : c % 2 = 0}

NormalizeInit ==
    /\ pc = "normalize"
    /\ sysfs = Dirname(UsbPrefix \o Name_1_1 \o IdVendorFile)
    /\ device = DevPrefix \o Basename(Video0)
    /\ attempt = 0
    /\ exitCode = 0
    /\ resetCalls = 0
    /\ ioctls = <<>>
    /\ roundLog = <<"bound">>
    /\ globUsb = <<>>
    /\ globVideo = {}
    /\ resetSeen = NoReset
    /\ scanEpoch = 0
    /\ nodeEpoch = 0
    /\ actual = Requested
    /\ cap = "open"
    /\ feed = VariedFeed
    /\ raw_bytes = <<>>
    /\ frame_buffer \in Windows
    /\ gray = frame_buffer[Len(frame_buffer)]
    /\ pushed = frame_buffer
    /\ thermal = Mean(frame_buffer)
    /\ thermal_8bit = <<>>
    /\ cmap_idx = 0
    /\ contrast_boost \in ContrastValues
    /\ key = "none"
    /\ outcome = "frame"
    /\ typed = FALSE

NormalizeSpec == NormalizeInit /\ [][NormalizeFrame]_vars

\* The two lookups as functions: find_thermal_usb_sysfs run on any bus
\* listing, then find_thermal_video_device run on the handle it gave and
\* any node listing.
ScanBus ==
    /\ pc = "lookup"
    /\ sysfs' = find_thermal_usb_sysfs(globUsb)
    /\ pc' = "scanned"
    /\ UNCHANGED <<device, attempt, exitCode, resetCalls, ioctls, roundLog, globUsb,
                   globVideo, resetSeen, scanEpoch, nodeEpoch, actual, sessionVars>>

ResolveNode ==
    /\ pc = "scanned"
    /\ sysfs # None
    /\ device' = find_thermal_video_device(sysfs, globVideo)
    /\ pc' = "resolved"
    /\ UNCHANGED <<sysfs, attempt, exitCode, resetCalls, ioctls, roundLog, globUsb,
                   globVideo, resetSeen, scanEpoch, nodeEpoch, actual, sessionVars>>

LookupInit ==
    /\ pc = "lookup"
    /\ globUsb \in BusStates
    /\ globVideo \in NodeStates
    /\ sysfs = None
    /\ device = None
    /\ attempt = 0
    /\ exitCode = 0
    /\ resetCalls = 0
    /\ ioctls = <<>>
    /\ roundLog = <<>>
    /\ resetSeen = NoReset
    /\ scanEpoch = 0
    /\ nodeEpoch = 0
    /\ actual = <<0, 0>>
    /\ cap = "none"
    /\ feed = VariedFeed
    /\ SessionStart

LookupSpec == LookupInit /\ [][ScanBus \/ ResolveNode]_vars


-----------------------------------------------------------------------------
(* Recovery controller: claims C1-C3, under StartupSpec / FairStartupSpec *)

IsPrefix(a, b) == Len(a) <= Len(b) /\ \A i \in 1..Len(a) : a[i] = b[i]

Terminal == {"found", "no_device", "give_up"}

\* C1: when the first bus scan finds no matching device, the program is at
\* exit(1) for "device not found", usb_reset_thermal was never called, no
\* reset ioctl was issued and no polling pass was run.
C1_NoDeviceNoReset ==
    (roundLog # <<>> /\ roundLog[1] = "none")
        => /\ pc = "no_device"
           /\ exitCode = 1
           /\ resetCalls = 0
           /\ ioctls = <<>>
           /\ attempt = 0
           /\ roundLog = <<"none">>

C1_Witness == pc = "no_device" /\ roundLog = <<"none">> /\ sysfs = None

\* The rounds of C2: a handle on every scan, no node at first nor on polling
\* passes 1 and 2, a node on pass 3.
LateScript == <<"unbound", "unbound", "unbound", "bound">>

\* C2: while the rounds follow LateScript the controller is not at FOUND
\* before the third polling pass, is at FOUND with a device right after it,
\* and no round follows the third pass.
C2_FoundAtThirdTick ==
    /\ IsPrefix(roundLog, LateScript)
          => /\ Len(roundLog) < 4 => (pc # "found" /\ device = None)
             /\ Len(roundLog) = 4 => (pc = "found" /\ device # None /\ exitCode = 0)
             /\ attempt = (IF roundLog = <<>> THEN 0 ELSE Len(roundLog) - 1)
    /\ IsPrefix(LateScript, roundLog)
          => (roundLog = LateScript /\ attempt = 3)

C2_Witness == roundLog = LateScript /\ pc = "found" /\ attempt = 3

AllUnbound(log) == \A i \in 1..Len(log) : log[i] = "unbound"

\* C3: the controller ends in one of FOUND, NO_DEVICE, GIVE_UP and stays
\* there; it never runs more than 5 polling passes; GIVE_UP is reached only
\* after the reset and exactly 5 passes, with exit(1) and no device; and when
\* every round has a handle and no node, the 5th pass ends in GIVE_UP.
C3_Terminates ==
    /\ <>(pc \in Terminal)
    /\ [][(pc \in Terminal) => (pc' = pc)]_vars
    /\ [](attempt <= 5)
    /\ [](pc = "give_up"
            => (attempt = 5 /\ exitCode = 1 /\ device = None /\ resetCalls = 1))
    /\ []((AllUnbound(roundLog) /\ Len(roundLog) = 6) => pc = "give_up")
    /\ [](pc = "found" => (device # None /\ exitCode = 0))
    /\ [](pc = "no_device" => exitCode = 1)

C3_Witness ==
    pc = "give_up" /\ attempt = 5 /\ AllUnbound(roundLog) /\ Len(roundLog) = 6


-----------------------------------------------------------------------------
(* Frame loop: claims C4-C10 *)

\* C4: contrast_boost, in tenths, is always within 4..50 (0.4 to 5.0); a
\* '+' or '=' key raises it by 2 (0.2) and a '-' key lowers it by 2, except
\* that a step that would leave the range ends on the bound.
C4_ContrastBounds ==
    /\ [](contrast_boost \in 4..50)
    /\ [][(pc = "key" /\ key' \in {"+", "="})
            => contrast_boost' =
                 (IF contrast_boost + 2 > 50 THEN 50 ELSE contrast_boost + 2)]_vars
    /\ [][(pc = "key" /\ key' = "-")
            => contrast_boost' =
                 (IF contrast_boost - 2 < 4 THEN 4 ELSE contrast_boost - 2)]_vars

C4_Witness == contrast_boost = 50 /\ key = "+" /\ Len(pushed) = 21

RECURSIVE Cycle(_, _)
Cycle(i, k) == IF k = 0 THEN i ELSE Cycle(NextPalette(i), k - 1)

\* C5: cmap_idx is always an index 0..5 of the six palettes, and from the
\* palette selected, six 'c' keys lead back to it and one to five do not.
C5_PaletteCycle ==
    /\ cmap_idx \in 0..5
    /\ cmap_idx + 1 \in DOMAIN COLORMAPS
    /\ Len(COLORMAPS) = 6
    /\ Cycle(cmap_idx, 6) = cmap_idx
    /\ \A k \in 1..5 : Cycle(cmap_idx, k) # cmap_idx
    /\ \A k \in 0..6 : Cycle(cmap_idx, k) \in 0..5

C5_Witness == key = "c" /\ cmap_idx = 0 /\ Len(pushed) = 6

\* The last n entries of a sequence, in order.
LastN(seq, n) == SubSeq(seq, Len(seq) - n + 1, Len(seq))

RECURSIVE SumOfLast(_, _, _, _)
SumOfLast(seq, n, y, x) ==
    IF n = 0 THEN 0
    ELSE seq[Len(seq) - n + 1][y][x] + SumOfLast(seq, n - 1, y, x)

\* C6: after the k-th frame is pushed, thermal is at every pixel the
\* arithmetic mean of the last min(3, k) frames pushed.
C6_MeanOfWindow ==
    pushed # <<>> =>
        LET m == IF Len(pushed) < 3 THEN Len(pushed) ELSE 3
        IN  /\ thermal.n > 0
            /\ \A y \in 1..h, x \in 1..w :
                  thermal.sum[y][x] * m = thermal.n * SumOfLast(pushed, m, y, x)

C6_Witness ==
    /\ Len(pushed) = 4
    /\ pushed[1] # pushed[2] /\ pushed[2] # pushed[3] /\ pushed[1] # pushed[4]
    /\ thermal.n = 3

\* C7: frame_buffer never holds more than 3 frames, and it holds the last
\* min(3, k) of the k frames pushed, oldest first.
C7_WindowBound ==
    /\ Len(frame_buffer) <= 3
    /\ Len(frame_buffer) = (IF Len(pushed) < 3 THEN Len(pushed) ELSE 3)
    /\ frame_buffer = LastN(pushed, Len(frame_buffer))

C7_Witness ==
    /\ Len(pushed) = 4
    /\ Len(frame_buffer) = 3
    /\ pushed[1] # pushed[4] /\ pushed[2] # pushed[3]
    /\ frame_buffer[1] = pushed[2]

Flat(th) == SetMin(PixelSums(th)) = SetMax(PixelSums(th))

AllPixels(img, v) == \A y \in 1..h, x \in 1..w : img[y][x] = v

\* b_max - b_min of line 196 for the image th at contrast c (in tenths).
Divisor(th, c) ==
    LET t_min == SetMin(PixelSums(th))
        t_max == SetMax(PixelSums(th))
        t_range == TRange(t_min, t_max, th.n)
    IN  BMax(t_min, t_max, t_range, c) - BMin(t_min, t_max, t_range, c)

\* C8 as stated: every pixel of the normalised flat frame is 128.
C8_FlatIs128 ==
    (pushed # <<>> /\ Flat(thermal)) => AllPixels(thermal_8bit, 128)

\* C8, amended: for a flat averaged frame the divisor of line 196 is not
\* zero and every pixel of thermal_8bit is 127 (127.5 cut off by the
\* conversion to 8 bits), whatever the contrast.
C8_FlatIs127 ==
    pushed # <<>> =>
        /\ Divisor(thermal, contrast_boost) > 0
        /\ Flat(thermal) => AllPixels(thermal_8bit, 127)

Flat100 == Extract(FlatBuf(h * w * 2))

C8_Witness ==
    /\ pc = "key"
    /\ Len(pushed) = 5
    /\ \A i \in 1..5 : pushed[i] = Flat100
    /\ AllPixels(thermal_8bit, 127)

InByteRange(img) == \A y \in 1..h, x \in 1..w : img[y][x] \in 0..255

\* The pixels at the minimum of thermal are 0 in thermal_8bit and those at
\* the maximum are 255.
EndpointsMapped ==
    \A y \in 1..h, x \in 1..w :
        /\ thermal.sum[y][x] = SetMin(PixelSums(thermal)) => thermal_8bit[y][x] = 0
        /\ thermal.sum[y][x] = SetMax(PixelSums(thermal)) => thermal_8bit[y][x] = 255

C10_ExtractBoundary ==
    /\ [](outcome = "short" => Len(raw_bytes) < w * h * 2)
    /\ [](outcome = "frame"
            => /\ Len(raw_bytes) >= w * h * 2
               /\ gray = pushed[Len(pushed)]
               /\ \A y \in 0..(h - 1), x \in 0..(w - 1) :
                     gray[y + 1][x + 1] = raw_bytes[(y * w + x) * 2 + 1])
    /\ [][(pc = "read" /\ outcome' # "readfail" /\ Len(raw_bytes') < w * h * 2)
            => /\ outcome' = "short"
               /\ UNCHANGED <<gray, frame_buffer, pushed, thermal, thermal_8bit, pc>>]_vars

C10_Witness ==
    /\ outcome = "frame"
    /\ raw_bytes = RampBuf(w * h * 2)
    /\ gray[1][1] = raw_bytes[1]
    /\ gray[h][w] = raw_bytes[w * h * 2 - 1]

-----------------------------------------------------------------------------
(* Frame loop: claims C11, C14, C17, under SessionSpec *)

Failures == {"readfail", "short"}

\* C11: an iteration whose read fails or whose buffer is short drops the
\* frame and goes back to the read: the window, the frames counted, the
\* contrast and the palette are as before, the capture stays open and the
\* program has not exited, however many such iterations follow one another.
C11_CaptureFailureNotFatal ==
    /\ [](outcome \in Failures => (pc = "read" /\ cap = "open" /\ exitCode = 0))
    /\ [][(pc = "read" /\ outcome' \in Failures)
            => /\ pc' = "read"
               /\ UNCHANGED <<frame_buffer, pushed, thermal, contrast_boost,
                              cmap_idx, cap, exitCode>>]_vars

\* A failed read right after a short buffer, with two frames in the window.
C11_Witness ==
    /\ outcome = "readfail"
    /\ TooShort(raw_bytes)
    /\ Len(raw_bytes) > 0
    /\ Len(frame_buffer) = 2
    /\ pc = "read"

InLoop == {"read", "key"}

\* C14: the loop is left only by the step that polls a "q"; no failed read,
\* short buffer or other key leaves it; and after it is left the capture
\* is released by the one step that ends the program, so the program has
\* ended only with the capture released.
C14_QuitReleases ==
    /\ [](pc = "break" => (key = "q" /\ cap = "open"))
    /\ [](pc = "end" <=> cap = "released")
    /\ [](pc = "end" => key = "q")
    /\ [][(pc \in InLoop /\ pc' \notin InLoop)
            => (pc = "key" /\ key' = "q" /\ pc' = "break")]_vars
    /\ [][(pc = "break") => (pc' = "end" /\ cap' = "released")]_vars

\* The program has ended by a quit polled after the second frame.
C14_Witness ==
    /\ pc = "end"
    /\ cap = "released"
    /\ key = "q"
    /\ Len(pushed) = 2
    /\ outcome = "frame"

\* C17: a key poll never changes the window or the averaged frame; "c"
\* leaves the contrast alone, "+", "=" and "-" leave the palette alone,
\* "s" and any other code leave both alone; the palette changes only at a
\* "c" and the contrast only at "+", "=" or "-"; and the poll goes back
\* to the read unless the key is "q", which alone leaves the loop.
C17_CommandFrames ==
    /\ [][(pc = "key")
            => /\ UNCHANGED <<frame_buffer, pushed, thermal, gray>>
               /\ (key' = "c") => UNCHANGED contrast_boost
               /\ (key' \in {"+", "=", "-"}) => UNCHANGED cmap_idx
               /\ (key' \in {"s", "other", "q"}) => UNCHANGED <<cmap_idx, contrast_boost>>
               /\ pc' = IF key' = "q" THEN "break" ELSE "read"]_vars
    /\ [][(cmap_idx' # cmap_idx) => (pc = "key" /\ key' = "c")]_vars
    /\ [][(contrast_boost' # contrast_boost)
            => (pc = "key" /\ key' \in {"+", "=", "-"})]_vars
    /\ [][(pc \in InLoop /\ pc' \notin InLoop) => (key' = "q")]_vars

\* A snapshot taken with the palette and the contrast both moved from
\* their initial values and the window full.
C17_Witness ==
    /\ key = "s"
    /\ pc = "read"
    /\ cmap_idx = 1
    /\ contrast_boost = 12
    /\ Len(frame_buffer) = SMOOTH_FRAMES

-----------------------------------------------------------------------------
(* Start-up to the loop: claims C12 and C16, under BootSpec *)

\* C12: when the capture device opens and reports a mode other than the
\* 256x192 asked for, the loop is not entered and the program has exited
\* with status 1.
C12_MismatchEndsStartup ==
    (cap = "open" /\ actual # Requested) => (pc # "read" /\ exitCode = 1)

Opening == {"found", "read", "open_failed"}

\* C16: once usb_reset_thermal has been called, a device the program holds,
\* and so the node it goes on to open, was resolved after the reset from a
\* handle given by a scan made after the reset: every step that sets the
\* device then follows a scan of the same step, and at the opening of the
\* camera both the handle and the node date from after the reset.
C16_FreshAfterReset ==
    /\ []((resetCalls > 0 /\ device # None)
            => (scanEpoch = resetCalls /\ nodeEpoch = resetCalls))
    /\ []((resetCalls > 0 /\ pc \in Opening)
            => (device # None /\ sysfs # None /\ nodeEpoch = resetCalls))
    /\ [][(resetCalls > 0 /\ device' # device)
            => (scanEpoch' = resetCalls /\ nodeEpoch' = scanEpoch')]_vars
    /\ [][(pc \in Opening) => (device' = device /\ sysfs' = sysfs)]_vars

\* The camera is open on a node that appeared at the second pass after
\* the reset.
C16_Witness ==
    /\ pc = "read"
    /\ cap = "open"
    /\ resetCalls = 1
    /\ attempt = 2
    /\ device # None
    /\ nodeEpoch = 1

-----------------------------------------------------------------------------
(* Reset and polling: claims C13 and C19, under StartupSpec *)

\* The devices of a bus listing that are the camera by their descriptors.
Candidates(b) ==
    {i \in 1..Len(b) : b[i].vid = THERMAL_USB_VID /\ b[i].pid = THERMAL_USB_PID}

\* The first candidate whose reset goes through, Len(b) + 1 when none does.
FirstOk(b) ==
    LET ok == {i \in Candidates(b) : b[i].reset = "ok"}
    IN  IF ok = {} THEN Len(b) + 1 ELSE CHOOSE i \in ok : \A j \in ok : i <= j

\* Entries of the listing at which a reset attempt fails before one goes
\* through: a descriptor that cannot be read, or a candidate not reset.
FailedBefore(b) ==
    {i \in 1..Len(b) :
        /\ i < FirstOk(b)
        /\ \/ b[i].vid = Unreadable
           \/ b[i].vid = THERMAL_USB_VID /\ b[i].pid = Unreadable
           \/ i \in Candidates(b)}

\* Names of the candidates the reset ioctl reaches, in listing order, when
\* every candidate up to the first success is tried.
IssuedOn(b) ==
    LET entries == [i \in 1..Len(b) |-> [i |-> i, d |-> b[i]]]
        Reached(e) == /\ e.i \in Candidates(b)
                      /\ e.i <= FirstOk(b)
                      /\ e.d.reset \in {"ok", "ioctlfail"}
        sel == SelectSeq(entries, Reached)
    IN  [k \in 1..Len(sel) |-> sel[k].d.name]

\* C13: a reset attempt that fails (descriptor unreadable, control file not
\* opened, ioctl refused) is counted as logged and the next candidate is
\* tried, up to the first that succeeds; and whatever the reset's result,
\* all candidates failing included, the program goes on to the polling
\* loop: after the reset it exits only from the loop's fifth pass.
C13_ResetFailureNotFatal ==
    resetCalls > 0 =>
        /\ resetSeen.result.ioctls = IssuedOn(resetSeen.bus)
        /\ resetSeen.result.failed = Cardinality(FailedBefore(resetSeen.bus))
        /\ resetSeen.result.ret = (FirstOk(resetSeen.bus) <= Len(resetSeen.bus))
        /\ pc \in {"poll", "found", "give_up"}
        /\ attempt = 0 => (pc = "poll" /\ exitCode = 0)
        /\ exitCode = 1 => (pc = "give_up" /\ attempt = RETRIES)

\* The first candidate's ioctl failed, the second was reset, and the
\* polling loop is about to start.
C13_Witness ==
    /\ resetCalls = 1
    /\ resetSeen.bus = <<CamIoctlFail, Cam2>>
    /\ ioctls = <<Name_1_1, Name_1_2>>
    /\ resetSeen.result.failed = 1
    /\ pc = "poll"
    /\ attempt = 0

\* C19: a polling pass whose scan finds no device does not end the program
\* as the first scan does: exit for "no device" happens only before any
\* reset; the empty pass is counted as one of the five, polling goes on
\* after it unless it was the fifth, and a pass that finds the device with
\* its node ends in "found" whatever the passes before it saw.
C19_PollingToleratesAbsence ==
    /\ pc = "no_device" => (resetCalls = 0 /\ roundLog = <<"none">>)
    /\ resetCalls > 0 =>
          /\ Len(roundLog) = attempt + 1
          /\ attempt <= RETRIES
          /\ roundLog[Len(roundLog)] = "none"
                => /\ attempt >= 1
                   /\ pc = IF attempt = RETRIES THEN "give_up" ELSE "poll"
          /\ roundLog[Len(roundLog)] = "bound" => pc = "found"

\* The device is absent from the bus on passes 1 to 4 and is found with
\* its node on pass 5.
C19_Witness ==
    /\ roundLog = <<"unbound", "none", "none", "none", "none", "bound">>
    /\ attempt = RETRIES
    /\ pc = "found"
    /\ device # None

-----------------------------------------------------------------------------
(* The lookups as functions: claims C15 and C18, under LookupSpec *)

\* The canonical path real lies under the directory of the device the
\* handle names: the handle's last component is a whole component of real.
Subordinate(real, handle) ==
    IsSubstring(<<47>> \o Basename(handle) \o <<47>>, real)

\* The nodes of the listing that belong to the handle's device.
Qualifying(handle, listing) == {v \in listing : Subordinate(v.real, handle)}

\* C15: the resolver returns a node only when that node's canonical path
\* lies under the handle's device (not under a device whose bus name only
\* contains the handle's name); of the nodes that do it returns the first
\* in lexicographic order of path, and none when there is no such node.
C15_ResolvesOwnNode ==
    pc = "resolved" =>
        LET own == Qualifying(sysfs, globVideo)
            first == CHOOSE v \in own : \A u \in own \ {v} : StrLess(v.path, u.path)
        IN  IF own = {} THEN device = None
            ELSE device = DevPrefix \o Basename(first.path)

\* C18: the scan gives the directory of the first device of the listing
\* whose two descriptors read as the camera's, wherever devices with an
\* unreadable descriptor stand in the listing, and gives None, not an
\* error, when no device matches.
C18_ScanSkipsUnreadable ==
    pc \in {"scanned", "resolved"} =>
        LET match == Candidates(globUsb)
            first == CHOOSE i \in match : \A j \in match : i <= j
        IN  IF match = {} THEN sysfs = None
            ELSE sysfs = UsbPrefix \o globUsb[first].name

\* The camera found behind a device whose idProduct cannot be read.
C18_Witness ==
    /\ pc = "scanned"
    /\ globUsb = <<Hub, HalfGone2, Cam>>
    /\ sysfs = UsbPrefix \o Name_1_1

-----------------------------------------------------------------------------
(* Quit while reads fail: claim C20, under FairQuitSpec *)

\* C20: the key is polled only at the end of an iteration that read and
\* extracted a frame and showed its normalised image; an iteration whose
\* read fails or whose buffer is short polls nothing, so a "q" typed
\* meanwhile stays waiting and the loop goes on; the waiting "q" is taken
\* only by the poll after a processed frame, which leaves the loop; and,
\* reads succeeding in the end, a typed "q" leads to the program's end.
C20_QuitAtNextFrame ==
    /\ [](pc = "key"
            => /\ outcome = "frame"
               /\ gray = Extract(raw_bytes)
               /\ thermal_8bit = Normalize(thermal, contrast_boost))
    /\ [][(pc # "key" /\ pc' = "key")
            => (pc = "read" /\ Len(pushed') = Len(pushed) + 1)]_vars
    /\ [][(key' # key) => (pc = "key" /\ outcome = "frame")]_vars
    /\ [][(outcome' \in Failures /\ outcome' # outcome)
            => (pc' = "read" /\ key' = key /\ typed' = typed)]_vars
    /\ [][(typed /\ ~typed')
            => (pc = "key" /\ outcome = "frame" /\ key' = "q" /\ pc' = "break")]_vars
    /\ [](typed => pc \in InLoop)
    /\ typed ~> (pc = "end")

\* A "q" waits while a read has just failed, one frame processed so far.
C20_Witness ==
    /\ typed
    /\ outcome = "readfail"
    /\ pc = "read"
    /\ Len(pushed) = 1
    /\ key # "q"

=============================================================================
